---- MODULE Spec2Model ----
(***************************************************************************)
(* The two orchestrators of ai-agent-orchestration-patterns:               *)
(*   concurrent-orchestration/main.py  MultiAgentConcurrentOrchestrator    *)
(*   sequential-orchestration/main.py  MultiAgentSequentialOrchestrator    *)
(* One run of the model is one process: run() reading lines, and for each  *)
(* non-empty line one orchestrate() call.  A text is a sequence of         *)
(* characters.  A call of the language model is an external event: it      *)
(* returns one of a few texts or raises.                                   *)
(***************************************************************************)
EXTENDS Integers, Sequences, FiniteSets, TLC

\* ------------------------------------------------------------------ bounds

\* Lines run() reads before the model stops looking.
MaxLines == 3

\* ------------------------------------------------------------------- texts

UpperCase == <<"A", "B", "C", "D", "E", "F", "G", "H", "I", "J", "K", "L", "M",
               "N", "O", "P", "Q", "R", "S", "T", "U", "V", "W", "X", "Y", "Z">>

LowerCase == <<"a", "b", "c", "d", "e", "f", "g", "h", "i", "j", "k", "l", "m",
               "n", "o", "p", "q", "r", "s", "t", "u", "v", "w", "x", "y", "z">>

Whitespace == {" ", "\t", "\n"}

\* str.lower() on one character.
LowerChar(c) ==
    IF \E i \in 1..Len(UpperCase) : UpperCase[i] = c
    THEN LowerCase[CHOOSE i \in 1..Len(UpperCase) : UpperCase[i] = c]
    ELSE c

\* A text left as it was typed.
Lower_AsIs(s) == s

\* str.lower()
Lower(s) == [i \in 1..Len(s) |-> LowerChar(s[i])]

RECURSIVE LStrip(_)
LStrip(s) ==
    IF s # <<>> /\ Head(s) \in Whitespace THEN LStrip(Tail(s)) ELSE s

RECURSIVE RStrip(_)
RStrip(s) ==
    IF s # <<>> /\ s[Len(s)] \in Whitespace
    THEN RStrip(SubSeq(s, 1, Len(s) - 1))
    ELSE s

\* str.strip()
Strip(s) == RStrip(LStrip(s))

\* Python's  sub in text  on strings.
Contains(text, sub) ==
    \E i \in 1..(Len(text) - Len(sub) + 1) :
        SubSeq(text, i, i + Len(sub) - 1) = sub

Sentinel ==
    <<"R", "E", "A", "D", "Y", "_", "T", "O", "_",
      "P", "U", "R", "C", "H", "A", "S", "E", ":">>

\* A sentinel test that looks only at the start of the shopping output.
\* (shopping_result.startswith("READY_TO_PURCHASE:"))
ReadyToPurchase_AtStart(shopping_result) ==
    /\ Len(Sentinel) <= Len(shopping_result)
    /\ SubSeq(shopping_result, 1, Len(Sentinel)) = Sentinel

\* A sentinel test that ignores letter case.
\* ("ready_to_purchase:" in shopping_result.lower())
ReadyToPurchase_AnyCase(shopping_result) ==
    Contains(Lower(shopping_result), Lower(Sentinel))

\* if "READY_TO_PURCHASE:" in shopping_result
ReadyToPurchase(shopping_result) == Contains(shopping_result, Sentinel)

ExitTokens ==
    { <<"q", "u", "i", "t">>, <<"e", "x", "i", "t">>, <<"q">> }

\* ---------------------------------------------------- the payloads of calls

CatalogHeader ==
    <<"\n", "C", "a", "t", "a", "l", "o", "g", " ",
      "I", "n", "f", "o", "r", "m", "a", "t", "i", "o", "n", ":", "\n">>

ServiceHeader ==
    <<"\n", "\n", "C", "u", "s", "t", "o", "m", "e", "r", " ",
      "S", "e", "r", "v", "i", "c", "e", " ",
      "I", "n", "f", "o", "r", "m", "a", "t", "i", "o", "n", ":", "\n">>

RequestHeader ==
    <<"\n", "\n", "O", "r", "i", "g", "i", "n", "a", "l", " ",
      "R", "e", "q", "u", "e", "s", "t", ":", " ">>

UserRequestPrefix ==
    <<"U", "s", "e", "r", " ", "r", "e", "q", "u", "e", "s", "t", ":", " ">>

ShoppingOutputPrefix ==
    <<"S", "h", "o", "p", "p", "i", "n", "g", " ", "A", "g", "e", "n", "t", " ",
      "o", "u", "t", "p", "u", "t", ":", " ">>

CatalogOutputPrefix ==
    <<"C", "a", "t", "a", "l", "o", "g", " ", "A", "g", "e", "n", "t", " ",
      "o", "u", "t", "p", "u", "t", ":", " ">>

\* combined_input = f"""..."""
CombinedInput(catalog_result, service_result, shopping_result) ==
    CatalogHeader \o catalog_result \o ServiceHeader \o service_result
        \o RequestHeader \o shopping_result \o <<"\n">>

\* ------------------------------------------------------------- the memory

HumanMessage(text) == [type |-> "human", content |-> text]

AIMessage(text) == [type |-> "ai", content |-> text]

\* A save that records a provisional marker in place of the final output.
SaveContext_Placeholder(mem, user_input, output) ==
    mem \o << HumanMessage(user_input), AIMessage(<<".", ".", ".">>) >>

\* A memory that keeps the last exchange only.
\* (ConversationBufferWindowMemory(k=1))
SaveContext_LastOnly(mem, user_input, output) ==
    << HumanMessage(user_input), AIMessage(output) >>

\* ConversationBufferMemory.save_context({"input": i}, {"output": o})
SaveContext(mem, user_input, output) ==
    mem \o << HumanMessage(user_input), AIMessage(output) >>

\* ------------------------------------------------- what the outside supplies

\* Lines the user may type at the "> " prompt.
InputLines ==
    { <<" ", "b", "u", "y", " ">>,
      <<" ", "Q", "u", "i", "t">>,
      <<"q">>,
      <<" ", "\t">>,
      <<>> }

\* Texts the model may return to the Shopping Agent prompt: the sentinel at
\* the start, the sentinel inside, the sentinel in lower case, the sentinel
\* cut before its colon.
ShoppingOutputs ==
    { Sentinel \o <<" ", "s">>,
      <<"o", "k", " ">> \o Sentinel,
      Lower(Sentinel),
      SubSeq(Sentinel, 1, Len(Sentinel) - 1) }

CatalogOutputs == { <<"c", "1">>, <<"c", "2">> }

ServiceOutputs == { <<"v", "1">>, <<"v", "2">> }

PaymentOutputs == { <<"p", "1">> }

Outputs(stage) ==
    CASE stage = "Shopping" -> ShoppingOutputs
      [] stage = "Catalog" -> CatalogOutputs
      [] stage = "Service" -> ServiceOutputs
      [] stage = "Payment" -> PaymentOutputs

Stages == {"Shopping", "Catalog", "Service", "Payment"}

\* The two stages the concurrent orchestrator runs in worker threads.
FanOut == {"Catalog", "Service"}

\* ------------------------------------------------------------------- state

VARIABLES
    variant,       \* which program runs: "concurrent" or "sequential"
    pc,            \* where the main thread is
    lines,         \* lines read so far by run()
    turn,          \* orchestrate() calls made so far
    user_input,    \* run(): user_input of the current iteration
    chat_history,  \* orchestrate: what load_memory_variables returned
    memory,        \* self.memory: the messages of the buffer, in order
    status,        \* per stage, the state of this turn's call of it
    out,           \* per stage, the text its call returned
    calls,         \* this turn's stage calls, in the order they were started
    completed,     \* the fan-out stages in the order their threads ended
    final_result,  \* orchestrate: final_result
    result,        \* how orchestrate() ended: nothing yet, a value, an error
    stragglers,    \* worker-thread calls of ended turns that still run
    ended,     \* every orchestrate() call that ended: its input and outcome
    interrupt_count,  \* asyncio's Runner._interrupt_count of this turn
    exit_code      \* the exit status of the process: <<>> while it runs

vars ==
    << variant, pc, lines, turn, user_input, chat_history, memory, status, out,
       calls, completed, final_result, result, stragglers, ended,
       interrupt_count, exit_code >>

NoText == <<>>

Idle == [s \in Stages |-> "idle"]

NoOut == [s \in Stages |-> NoText]

NoResult == [kind |-> "none", val |-> NoText]

Value(text) == [kind |-> "value", val |-> text]

\* The exception a failed call of `stage` raises.
Error(stage) == [kind |-> "error", val |-> <<stage>>]

\* The process runs: it has no exit status yet.
NoExit == <<>>

\* The process has ended with the status `code`.
Exit(code) == <<code>>

\* KeyboardInterrupt is what ends the call of orchestrate, or the read.
Interrupted == [kind |-> "interrupt", val |-> NoText]

\* A stage call: the variables given to its prompt template.
Call(stage, input, with_history, history) ==
    [stage |-> stage, input |-> input,
     with_history |-> with_history, chat_history |-> history]

\* The stage calls of the current turn that have not returned or raised.
InFlight == { s \in Stages : status[s] = "running" }

Init ==
    /\ variant \in {"concurrent", "sequential"}
    /\ pc = "input"
    /\ lines = 0
    /\ turn = 0
    /\ user_input = NoText
    /\ chat_history = <<>>
    /\ memory = <<>>
    /\ status = Idle
    /\ out = NoOut
    /\ calls = <<>>
    /\ completed = <<>>
    /\ final_result = NoText
    /\ result = NoResult
    /\ stragglers = {}
    /\ ended = <<>>
    /\ interrupt_count = 0
    /\ exit_code = NoExit

\* ---------------------------------------------------------------- run()

\* The input of the Shopping call: {"input": user_input} for the chain of the
\* concurrent orchestrator, AIMessage(f"User request: {user_input}") for
\* call_shopping_agent of the sequential one.
ShoppingInput(v, text) ==
    IF v = "concurrent" THEN text ELSE UserRequestPrefix \o text

\* input("> ").strip() is a non-empty line that is no exit token:
\* self.orchestrate(user_input) starts, up to the start of the Shopping call.
ReadText ==
    /\ pc = "input"
    /\ lines < MaxLines
    /\ \E line \in InputLines :
         /\ Lower(Strip(line)) \notin ExitTokens
         /\ Strip(line) # <<>>
         /\ user_input' = Strip(line)
         /\ calls' = << Call("Shopping", ShoppingInput(variant, Strip(line)),
                             TRUE, memory) >>
    /\ lines' = lines + 1
    /\ turn' = turn + 1
    /\ chat_history' = memory
    /\ status' = [Idle EXCEPT !["Shopping"] = "running"]
    /\ out' = NoOut
    /\ completed' = <<>>
    /\ final_result' = NoText
    /\ result' = NoResult
    /\ pc' = "shopping"
    /\ UNCHANGED << variant, exit_code, interrupt_count, memory, stragglers, ended >>

\* A loop without the `if user_input:` test: the empty text is handed to
\* orchestrate like any other.
ReadEmpty_Orchestrates ==
    /\ pc = "input"
    /\ lines < MaxLines
    /\ \E line \in InputLines :
         /\ Lower(Strip(line)) \notin ExitTokens
         /\ Strip(line) = <<>>
         /\ user_input' = Strip(line)
         /\ calls' = << Call("Shopping", ShoppingInput(variant, Strip(line)),
                             TRUE, memory) >>
    /\ lines' = lines + 1
    /\ turn' = turn + 1
    /\ chat_history' = memory
    /\ status' = [Idle EXCEPT !["Shopping"] = "running"]
    /\ pc' = "shopping"
    /\ UNCHANGED << variant, exit_code, interrupt_count, memory, out,
                    completed, final_result, result, stragglers, ended >>

\* The line is empty after strip(): neither if-branch is taken.
ReadEmpty ==
    /\ pc = "input"
    /\ lines < MaxLines
    /\ \E line \in InputLines :
         /\ Lower(Strip(line)) \notin ExitTokens
         /\ Strip(line) = <<>>
         /\ user_input' = Strip(line)
    /\ lines' = lines + 1
    /\ UNCHANGED << variant, exit_code, interrupt_count, pc, turn, chat_history, memory, status, out, calls,
                    completed, final_result, result, stragglers, ended >>

\* if user_input.lower() in ['quit', 'exit', 'q']: break.  run() and main()
\* return and the process ends with status 0.
ReadExit ==
    /\ pc = "input"
    /\ lines < MaxLines
    /\ \E line \in InputLines :
         /\ Lower(Strip(line)) \in ExitTokens
         /\ user_input' = Strip(line)
    /\ lines' = lines + 1
    /\ pc' = "exit"
    /\ exit_code' = Exit(0)
    /\ UNCHANGED << variant, interrupt_count, turn, chat_history, memory, status, out, calls,
                    completed, final_result, result, stragglers, ended >>

\* A loop whose handler does not cover EOFError: it leaves run() and main(),
\* and the handler of Exception under __main__ ends the process with 1.
\* (except RuntimeError as e: ...)
ReadEOF_Uncaught ==
    /\ pc = "input"
    /\ lines < MaxLines
    /\ lines' = lines + 1
    /\ result' = [kind |-> "error", val |-> <<"EOFError">>]
    /\ pc' = "exit"
    /\ exit_code' = Exit(1)
    /\ UNCHANGED << variant, interrupt_count, turn, user_input, chat_history,
                    memory, status, out, calls, completed, final_result,
                    stragglers, ended >>

\* input() raises EOFError (standard input is at its end): an Exception.
ReadEOF ==
    /\ pc = "input"
    /\ lines < MaxLines
    /\ lines' = lines + 1
    /\ result' = [kind |-> "error", val |-> <<"EOFError">>]
    /\ pc' = "except"
    /\ UNCHANGED << variant, exit_code, interrupt_count, turn, user_input, chat_history, memory, status, out,
                    calls, completed, final_result, stragglers, ended >>

\* print() after self.orchestrate(user_input) returned; the loop iterates.
\* The frame of orchestrate, and its locals, are gone.
AfterOrchestrate ==
    /\ pc = "returned"
    /\ pc' = "input"
    /\ chat_history' = <<>>
    /\ status' = Idle
    /\ out' = NoOut
    /\ calls' = <<>>
    /\ completed' = <<>>
    /\ final_result' = NoText
    /\ result' = NoResult
    /\ interrupt_count' = 0
    /\ UNCHANGED << variant, exit_code, lines, turn, user_input, memory,
                    stragglers, ended >>

\* A handler that prints the error and leaves the loop.
ExceptException_Break ==
    /\ pc = "except"
    /\ pc' = "exit"
    /\ UNCHANGED << variant, exit_code, interrupt_count, lines, turn, user_input, chat_history, memory,
                    status, out, calls, completed, final_result, result,
                    stragglers, ended >>

\* except Exception as e: print(f"Error: {e}\n"); the loop iterates.
ExceptException ==
    /\ pc = "except"
    /\ pc' = "input"
    /\ chat_history' = <<>>
    /\ status' = Idle
    /\ out' = NoOut
    /\ calls' = <<>>
    /\ completed' = <<>>
    /\ final_result' = NoText
    /\ result' = NoResult
    /\ interrupt_count' = 0
    /\ UNCHANGED << variant, exit_code, lines, turn, user_input, memory,
                    stragglers, ended >>

\* ------------------------------------------------------------ orchestrate

\* Where an orchestrate() that ended goes next.  The concurrent one runs
\* under asyncio.run(), which closes its event loop before it returns or
\* re-raises; the sequential one is back in run() at once.
AfterEnd(v, r) ==
    IF v = "concurrent" THEN "closing"
    ELSE IF r.kind = "value" THEN "returned" ELSE "except"

\* Where run() is once asyncio.run() has ended with r: after the call, in
\* the handler of Exception, or out of the loop through the handler of
\* KeyboardInterrupt.
AfterRun(r) ==
    CASE r.kind = "value" -> "returned"
      [] r.kind = "error" -> "except"
      [] OTHER -> "exit"

\* The record of the orchestrate() calls that have ended, kept when control
\* is back in run(): the turn's input and the value returned, or only that
\* it raised.
Ended(log, pcNext, input, r) ==
    IF pcNext \in {"returned", "except"}
    THEN Append(log, IF r.kind = "value"
                     THEN [kind |-> "value", input |-> input, val |-> r.val]
                     ELSE [kind |-> "error", input |-> NoText, val |-> NoText])
    ELSE log

\* shopping_chain.invoke / call_shopping_agent returns a text.
ShoppingReturns ==
    /\ pc = "shopping"
    /\ \E text \in ShoppingOutputs :
         out' = [out EXCEPT !["Shopping"] = text]
    /\ status' = [status EXCEPT !["Shopping"] = "done"]
    /\ pc' = "classify"
    /\ UNCHANGED << variant, exit_code, interrupt_count, lines, turn, user_input, chat_history, memory,
                    calls, completed, final_result, result, stragglers,
                    ended >>

\* The Shopping call raises: the exception leaves orchestrate.
ShoppingFails ==
    /\ pc = "shopping"
    /\ status' = [status EXCEPT !["Shopping"] = "failed"]
    /\ result' = Error("Shopping")
    /\ pc' = AfterEnd(variant, Error("Shopping"))
    /\ ended' = Ended(ended, pc', user_input, result')
    /\ UNCHANGED << variant, exit_code, interrupt_count, lines, turn, user_input, chat_history, memory, out,
                    calls, completed, final_result, stragglers >>

\* The input of the Catalog call: {"input": shopping_result} for the chain,
\* AIMessage(f"Shopping Agent output: {shopping_output}") for
\* call_catalog_agent.
CatalogInput(v, shopping_result) ==
    IF v = "concurrent" THEN shopping_result
    ELSE ShoppingOutputPrefix \o shopping_result

\* The sentinel test.  With the sentinel: the concurrent orchestrator makes
\* its two to_thread coroutines and reaches the await of gather; the
\* sequential one calls call_catalog_agent.  Without: final_result is the
\* shopping result.  A cancellation asked for during the Shopping call is
\* delivered at the await of gather, the first await of the coroutine: the
\* two tasks are cancelled before their first step and no thread starts.
Classify ==
    /\ pc = "classify"
    /\ IF ReadyToPurchase(out["Shopping"])
       THEN IF variant = "concurrent"
            THEN /\ pc' = IF interrupt_count = 0 THEN "fanout" ELSE "closing"
                 /\ result' = IF interrupt_count = 0 THEN result
                                                     ELSE Interrupted
                 /\ UNCHANGED << status, calls, final_result >>
            ELSE /\ pc' = "catalog"
                 /\ status' = [status EXCEPT !["Catalog"] = "running"]
                 /\ calls' = Append(calls,
                        Call("Catalog", CatalogInput(variant, out["Shopping"]),
                             FALSE, <<>>))
                 /\ UNCHANGED << final_result, result >>
       ELSE /\ pc' = "save"
            /\ final_result' = out["Shopping"]
            /\ UNCHANGED << status, calls, result >>
    /\ UNCHANGED << variant, exit_code, interrupt_count, lines, turn,
                    user_input, chat_history, memory, out, completed,
                    stragglers, ended >>

\* The order in which gather's tasks take their first step: the order of
\* gather's arguments.
TaskOrder == << "Catalog", "Service" >>

\* A fan-out chain whose prompt is given the conversation history, as the
\* shopping chain's is.
StartThread_WithHistory ==
    /\ pc = "fanout"
    /\ \E i \in 1..Len(TaskOrder) :
         /\ status[TaskOrder[i]] = "idle"
         /\ \A j \in 1..(i - 1) : status[TaskOrder[j]] # "idle"
         /\ status' = [status EXCEPT ![TaskOrder[i]] = "running"]
         /\ calls' = Append(calls,
                Call(TaskOrder[i], out["Shopping"], TRUE, chat_history))
         /\ pc' = IF i = Len(TaskOrder) THEN "gather" ELSE "fanout"
    /\ UNCHANGED << variant, exit_code, interrupt_count, lines, turn, user_input, chat_history, memory, out,
                    completed, final_result, result, stragglers, ended >>

\* A fan-out that chains: a call started when the other has answered is
\* given that answer after the shopping output.
StartThread_Chained ==
    /\ pc = "fanout"
    /\ \E i \in 1..Len(TaskOrder) :
         /\ status[TaskOrder[i]] = "idle"
         /\ \A j \in 1..(i - 1) : status[TaskOrder[j]] # "idle"
         /\ status' = [status EXCEPT ![TaskOrder[i]] = "running"]
         /\ calls' = Append(calls,
                Call(TaskOrder[i],
                     out["Shopping"] \o out["Catalog"] \o out["Service"],
                     FALSE, <<>>))
         /\ pc' = IF i = Len(TaskOrder) THEN "gather" ELSE "fanout"
    /\ UNCHANGED << variant, exit_code, interrupt_count, lines, turn,
                    user_input, chat_history, memory, out, completed,
                    final_result, result, stragglers, ended >>

\* The event loop runs the first step of the next to_thread task: the call
\* catalog_chain.invoke / customer_service_chain.invoke starts in a worker
\* thread of the default executor.  After the second, the coroutine waits
\* in gather.
StartThread ==
    /\ pc = "fanout"
    /\ \E i \in 1..Len(TaskOrder) :
         /\ status[TaskOrder[i]] = "idle"
         /\ \A j \in 1..(i - 1) : status[TaskOrder[j]] # "idle"
         /\ status' = [status EXCEPT ![TaskOrder[i]] = "running"]
         /\ calls' = Append(calls,
                Call(TaskOrder[i], out["Shopping"], FALSE, <<>>))
         /\ pc' = IF i = Len(TaskOrder) THEN "gather" ELSE "fanout"
    /\ UNCHANGED << variant, exit_code, interrupt_count, lines, turn, user_input, chat_history, memory, out,
                    completed, final_result, result, stragglers, ended >>

\* A worker thread's call returns a text.
ThreadReturns(stage) ==
    /\ variant = "concurrent"
    /\ status[stage] = "running"
    /\ \E text \in Outputs(stage) :
         out' = [out EXCEPT ![stage] = text]
    /\ status' = [status EXCEPT ![stage] = "done"]
    /\ completed' = Append(completed, stage)
    /\ UNCHANGED << variant, exit_code, interrupt_count, pc, lines, turn, user_input, chat_history, memory,
                    calls, final_result, result, stragglers, ended >>

\* A worker thread's call raises.
ThreadFails(stage) ==
    /\ variant = "concurrent"
    /\ status[stage] = "running"
    /\ status' = [status EXCEPT ![stage] = "failed"]
    /\ completed' = Append(completed, stage)
    /\ UNCHANGED << variant, exit_code, interrupt_count, pc, lines, turn, user_input, chat_history, memory,
                    out, calls, final_result, result, stragglers, ended >>

\* gather waiting for the first of its tasks only.
GatherDone_First(st) == \E s \in FanOut : st[s] = "done"

\* gather has a result once every one of its tasks has one.
GatherDone(st) == \A s \in FanOut : st[s] = "done"

\* gather's result listed in the order the tasks completed.
GatherResults_AsCompleted(o, done) == << o[done[1]], o[done[2]] >>

\* gather's result: in the order of its arguments.
GatherResults(o, done) == << o["Catalog"], o["Service"] >>

\* await asyncio.gather(...) returns; catalog_result, service_result are
\* unpacked, combined_input is built and payment_chain.invoke starts.
GatherReturns ==
    /\ pc = "gather"
    /\ GatherDone(status)
    /\ LET r == GatherResults(out, completed)
       IN calls' = Append(calls,
              Call("Payment", CombinedInput(r[1], r[2], out["Shopping"]),
                   FALSE, <<>>))
    /\ status' = [status EXCEPT !["Payment"] = "running"]
    /\ pc' = "payment"
    /\ UNCHANGED << variant, exit_code, interrupt_count, lines, turn, user_input, chat_history, memory, out,
                    completed, final_result, result, stragglers, ended >>

\* The first fan-out stage that failed, in completion order.
FirstFailed(st, done) ==
    done[CHOOSE i \in 1..Len(done) :
            /\ st[done[i]] = "failed"
            /\ \A j \in 1..(i - 1) : st[done[j]] # "failed"]

\* gather called with return_exceptions=True: once both tasks have ended a
\* failure is one more result, and the coroutine goes on to the Payment call.
GatherRaises_ReturnExceptions ==
    /\ pc = "gather"
    /\ \E s \in FanOut : status[s] = "failed"
    /\ \A s \in FanOut : status[s] \in {"done", "failed"}
    /\ calls' = Append(calls,
           Call("Payment",
                CombinedInput(out["Catalog"], out["Service"], out["Shopping"]),
                FALSE, <<>>))
    /\ status' = [status EXCEPT !["Payment"] = "running"]
    /\ pc' = "payment"
    /\ UNCHANGED << variant, exit_code, interrupt_count, lines, turn, user_input, chat_history, memory, out,
                    completed, final_result, result, stragglers, ended >>

\* A wait that takes no notice of a failed task: the coroutine stays in it.
\* (asyncio.wait on the two tasks, then awaiting a result that never comes)
GatherRaises_Unnoticed ==
    /\ pc = "gather"
    /\ \E s \in FanOut : status[s] = "failed"
    /\ UNCHANGED vars

\* await asyncio.gather(...) raises the first exception of its tasks (it
\* was called without return_exceptions); the other task is left as it is.
GatherRaises ==
    /\ pc = "gather"
    /\ \E s \in FanOut : status[s] = "failed"
    /\ result' = Error(FirstFailed(status, completed))
    /\ pc' = "closing"
    /\ UNCHANGED << variant, exit_code, interrupt_count, lines, turn, user_input, chat_history, memory,
                    status, out, calls, completed, final_result, stragglers,
                    ended >>

\* A chain that hands the Payment agent the shopping output as well.
\* (call_payment_agent(catalog_result + shopping_result))
SeqCatalogReturns_WithShopping ==
    /\ pc = "catalog"
    /\ \E text \in CatalogOutputs :
         /\ out' = [out EXCEPT !["Catalog"] = text]
         /\ calls' = Append(calls,
                Call("Payment", CatalogOutputPrefix \o text \o out["Shopping"],
                     FALSE, <<>>))
    /\ status' = [status EXCEPT !["Catalog"] = "done", !["Payment"] = "running"]
    /\ pc' = "payment"
    /\ UNCHANGED << variant, exit_code, interrupt_count, lines, turn,
                    user_input, chat_history, memory, completed, final_result,
                    result, stragglers, ended >>

\* call_catalog_agent returns; call_payment_agent(catalog_result) starts.
SeqCatalogReturns ==
    /\ pc = "catalog"
    /\ \E text \in CatalogOutputs :
         /\ out' = [out EXCEPT !["Catalog"] = text]
         /\ calls' = Append(calls,
                Call("Payment", CatalogOutputPrefix \o text, FALSE, <<>>))
    /\ status' = [status EXCEPT !["Catalog"] = "done", !["Payment"] = "running"]
    /\ pc' = "payment"
    /\ UNCHANGED << variant, exit_code, interrupt_count, lines, turn, user_input, chat_history, memory,
                    completed, final_result, result, stragglers, ended >>

\* call_catalog_agent raises.
SeqCatalogFails ==
    /\ pc = "catalog"
    /\ status' = [status EXCEPT !["Catalog"] = "failed"]
    /\ result' = Error("Catalog")
    /\ pc' = AfterEnd(variant, Error("Catalog"))
    /\ ended' = Ended(ended, pc', user_input, result')
    /\ UNCHANGED << variant, exit_code, interrupt_count, lines, turn, user_input, chat_history, memory, out,
                    calls, completed, final_result, stragglers >>

\* A Payment step that leaves final_result at the shopping output.
PaymentReturns_KeepsShopping ==
    /\ pc = "payment"
    /\ \E text \in PaymentOutputs :
         out' = [out EXCEPT !["Payment"] = text]
    /\ final_result' = out["Shopping"]
    /\ status' = [status EXCEPT !["Payment"] = "done"]
    /\ pc' = "save"
    /\ UNCHANGED << variant, exit_code, interrupt_count, lines, turn, user_input, chat_history, memory,
                    calls, completed, result, stragglers, ended >>

\* The Payment call returns: final_result = payment_result.
PaymentReturns ==
    /\ pc = "payment"
    /\ \E text \in PaymentOutputs :
         /\ out' = [out EXCEPT !["Payment"] = text]
         /\ final_result' = text
    /\ status' = [status EXCEPT !["Payment"] = "done"]
    /\ pc' = "save"
    /\ UNCHANGED << variant, exit_code, interrupt_count, lines, turn, user_input, chat_history, memory,
                    calls, completed, result, stragglers, ended >>

\* The Payment call raises.
PaymentFails ==
    /\ pc = "payment"
    /\ status' = [status EXCEPT !["Payment"] = "failed"]
    /\ result' = Error("Payment")
    /\ pc' = AfterEnd(variant, Error("Payment"))
    /\ ended' = Ended(ended, pc', user_input, result')
    /\ UNCHANGED << variant, exit_code, interrupt_count, lines, turn, user_input, chat_history, memory, out,
                    calls, completed, final_result, stragglers >>

\* self.memory.save_context(...); return final_result.  A coroutine that
\* returns while a cancellation of its task is pending ends cancelled, its
\* value dropped, and asyncio.run() raises KeyboardInterrupt.
SaveAndReturn ==
    /\ pc = "save"
    /\ memory' = SaveContext(memory, user_input, final_result)
    /\ result' = IF interrupt_count = 0 THEN Value(final_result)
                                        ELSE Interrupted
    /\ pc' = AfterEnd(variant, Value(final_result))
    /\ ended' = Ended(ended, pc', user_input, result')
    /\ UNCHANGED << variant, exit_code, interrupt_count, lines, turn, user_input, chat_history, status, out,
                    calls, completed, final_result, stragglers >>

\* ------------------------------------------------------------ asyncio.run

\* asyncio.run() closes its loop once the coroutine has ended: it shuts the
\* default executor down, which joins the worker threads, and only then
\* returns the coroutine's value or re-raises its exception.
RunnerClose ==
    /\ pc = "closing"
    /\ \A s \in FanOut : status[s] # "running"
    /\ pc' = AfterRun(result)
    /\ exit_code' = IF result.kind = "interrupt" THEN Exit(0) ELSE exit_code
    /\ ended' = Ended(ended, pc', user_input, result)
    /\ UNCHANGED << variant, interrupt_count, lines, turn, user_input, chat_history, memory,
                    status, out, calls, completed, final_result, result,
                    stragglers >>

\* The same with CPython 3.12 and later, where the join of the worker
\* threads is given up after asyncio.constants.THREAD_JOIN_TIMEOUT (300 s):
\* asyncio.run() warns, leaves the threads running and returns or re-raises.
RunnerCloseTimeout ==
    /\ pc = "closing"
    /\ \E s \in FanOut : status[s] = "running"
    /\ stragglers' = stragglers \cup
           { <<turn, s>> : s \in { x \in FanOut : status[x] = "running" } }
    /\ status' = [s \in Stages |->
                    IF s \in FanOut /\ status[s] = "running"
                    THEN "left" ELSE status[s]]
    /\ pc' = AfterRun(result)
    /\ exit_code' = IF result.kind = "interrupt" THEN Exit(0) ELSE exit_code
    /\ ended' = Ended(ended, pc', user_input, result)
    /\ UNCHANGED << variant, interrupt_count, lines, turn, user_input, chat_history, memory, out,
                    calls, completed, final_result, result >>

\* The call of a thread that was left running returns or raises; nobody
\* reads its outcome.
StragglerEnds ==
    /\ \E x \in stragglers : stragglers' = stragglers \ {x}
    /\ UNCHANGED << variant, exit_code, interrupt_count, pc, lines, turn, user_input, chat_history, memory,
                    status, out, calls, completed, final_result, result,
                    ended >>

\* ------------------------------------------------------ KeyboardInterrupt

\* Where the main thread is inside a call of orchestrate.
InTurn ==
    {"shopping", "classify", "fanout", "gather", "catalog", "payment", "save"}

\* The worker threads of this turn whose call has not ended.
RunningThreads ==
    IF variant = "concurrent"
    THEN { s \in FanOut : status[s] = "running" }
    ELSE {}

\* Where the main thread can be blocked when SIGINT arrives: in input(), in
\* a stage call of its own, in the await of gather, or in asyncio.run()'s
\* join of the worker threads.
Interruptible ==
    \/ pc \in {"input", "shopping", "gather", "catalog", "payment"}
    \/ pc = "closing" /\ RunningThreads # {}

\* SIGINT raises KeyboardInterrupt in the main thread: Python's default
\* handler, which is in place in input(), in the sequential orchestrator,
\* while asyncio.run() closes its loop, and all through asyncio.run() before
\* CPython 3.11; from 3.11 asyncio's handler raises it at a second SIGINT,
\* and its cancellation of a task waiting in gather ends the coroutine the
\* same way.  Inside asyncio.run() the loop is closed before the exception
\* reaches run(); everywhere else `except KeyboardInterrupt: break` is next
\* and the process ends with status 0.  A call the main thread was blocked
\* in is given up; worker threads run on.
InterruptRaise ==
    /\ Interruptible
    /\ IF variant = "concurrent" /\ pc \in InTurn
       THEN /\ pc' = "closing"
            /\ UNCHANGED << exit_code, stragglers >>
       ELSE /\ pc' = "exit"
            /\ exit_code' = Exit(0)
            /\ stragglers' = stragglers \cup
                   { <<turn, s>> : s \in RunningThreads }
    /\ result' = Interrupted
    /\ status' = [s \in Stages |->
                    CASE status[s] # "running" -> status[s]
                      [] s \notin RunningThreads -> "aborted"
                      [] pc = "closing" -> "left"
                      [] OTHER -> status[s]]
    /\ UNCHANGED << variant, interrupt_count, lines, turn, user_input,
                    chat_history, memory, out, calls, completed, final_result,
                    ended >>

\* CPython 3.11 and later: the first SIGINT inside asyncio.run() only asks
\* for the cancellation of the main task (Runner._on_sigint).  While the
\* coroutine is inside a synchronous stage call nothing else happens: the
\* call goes on, and the cancellation waits for the next await.
InterruptCancel ==
    /\ variant = "concurrent"
    /\ pc \in {"shopping", "payment"}
    /\ interrupt_count = 0
    /\ interrupt_count' = 1
    /\ UNCHANGED << variant, exit_code, pc, lines, turn, user_input,
                    chat_history, memory, status, out, calls, completed,
                    final_result, result, stragglers, ended >>

\* ------------------------------------------------------------ the program

Next ==
    \/ ReadText
    \/ ReadEmpty
    \/ ReadExit
    \/ ReadEOF
    \/ AfterOrchestrate
    \/ ExceptException
    \/ ShoppingReturns
    \/ ShoppingFails
    \/ Classify
    \/ StartThread
    \/ \E s \in FanOut : ThreadReturns(s)
    \/ \E s \in FanOut : ThreadFails(s)
    \/ GatherReturns
    \/ GatherRaises
    \/ SeqCatalogReturns
    \/ SeqCatalogFails
    \/ PaymentReturns
    \/ PaymentFails
    \/ SaveAndReturn
    \/ RunnerClose
    \/ RunnerCloseTimeout
    \/ StragglerEnds
    \/ InterruptRaise
    \/ InterruptCancel

Spec == Init /\ [][Next]_vars

\* ----------------------------------------------------- terms of the claims

\* The positions in `calls` of this turn's calls of `stage`.
CallsOf(stage) == { i \in 1..Len(calls) : calls[i].stage = stage }

Started(stage) == CallsOf(stage) # {}

\* This turn's shopping output holds the sentinel text.
HasSentinel ==
    \E i \in 1..Len(out["Shopping"]) :
        /\ i + Len(Sentinel) - 1 <= Len(out["Shopping"])
        /\ \A k \in 1..Len(Sentinel) : out["Shopping"][i + k - 1] = Sentinel[k]

\* The main thread is past the await of gather, or past the turn's end.
PastFanOut == pc \in {"gather", "payment", "save", "closing", "returned", "except"}

\* ---------------------------------------------------------------------- C1

\* C1: in a turn of the concurrent orchestrator whose shopping output holds
\* 'READY_TO_PURCHASE:' and which no KeyboardInterrupt has ended, once the
\* fan-out is under way exactly one Catalog
\* call and exactly one Customer-Service call have been made, and a Payment
\* call, if there is one, was started after both; in a turn whose shopping
\* output lacks it, no Catalog, Customer-Service or Payment call is made.
C1_BranchCorrectness ==
    variant = "concurrent" =>
        /\ \A s \in Stages : Cardinality(CallsOf(s)) <= 1
        /\ (status["Shopping"] = "done" /\ HasSentinel /\ PastFanOut
                /\ result.kind # "interrupt")
              => /\ Cardinality(CallsOf("Catalog")) = 1
                 /\ Cardinality(CallsOf("Service")) = 1
        /\ Started("Payment")
              => /\ HasSentinel
                 /\ \A p \in CallsOf("Payment") :
                       /\ \E c \in CallsOf("Catalog") : c < p
                       /\ \E c \in CallsOf("Service") : c < p
        /\ (status["Shopping"] = "done" /\ ~HasSentinel)
              => \A s \in {"Catalog", "Service", "Payment"} : ~Started(s)
        /\ status["Shopping"] # "done"
              => \A s \in {"Catalog", "Service", "Payment"} : ~Started(s)

\* A fulfilment turn of the concurrent orchestrator has returned, its
\* sentinel not at the start of the shopping output.
C1_Witness ==
    /\ variant = "concurrent"
    /\ pc = "returned"
    /\ HasSentinel
    /\ out["Shopping"][1] # Sentinel[1]
    /\ Len(calls) = 4

\* ---------------------------------------------------------------------- C2

\* C2: in the concurrent orchestrator the Payment call is started only when
\* the Catalog call and the Customer-Service call have both returned a
\* result; so in a turn where either has raised, in whatever state the other
\* is, no Payment call is ever made.
C2_JoinBarrier ==
    variant = "concurrent" =>
        /\ Started("Payment") => \A s \in FanOut : status[s] = "done"
        /\ (\E s \in FanOut : status[s] = "failed") => ~Started("Payment")
        /\ pc \in {"payment", "save"} => \A s \in FanOut
              : status[s] \in {"idle", "done"}

\* The Catalog call has raised, gather has re-raised it while the
\* Customer-Service call is still running in its thread.
C2_Witness ==
    /\ variant = "concurrent"
    /\ pc = "closing"
    /\ status["Catalog"] = "failed"
    /\ status["Service"] = "running"
    /\ result = Error("Catalog")

\* ---------------------------------------------------------------------- C3

\* C3: in both orchestrators, up to the save of a turn the memory is what it
\* was at the turn's start, and after a turn whose orchestrate returned a
\* value it is that plus one entry, the turn's user input and the returned
\* value.
C3_MemoryAtomicity ==
    /\ pc \in {"shopping", "classify", "fanout", "gather", "catalog", "payment",
               "save"}
          => memory = chat_history
    /\ (pc \in {"closing", "returned"} /\ result.kind = "value")
          => /\ Len(memory) = Len(chat_history) + 2
             /\ SubSeq(memory, 1, Len(chat_history)) = chat_history
             /\ memory[Len(memory) - 1] =
                    [type |-> "human", content |-> user_input]
             /\ memory[Len(memory)] = [type |-> "ai", content |-> result.val]
    /\ pc = "returned" => result.kind = "value"

\* A fulfilment turn has returned with an earlier turn already in memory.
C3_Witness ==
    /\ pc = "returned"
    /\ chat_history # <<>>
    /\ status["Payment"] = "done"

\* ---------------------------------------------------------------------- C4

\* The place of a stage in the pipeline: Shopping, then the fan-out (the
\* Catalog call alone in the sequential orchestrator), then Payment.
Rank(stage) ==
    CASE stage = "Shopping" -> 1
      [] stage \in FanOut -> 2
      [] stage = "Payment" -> 3

\* C4: in both orchestrators, once a stage call of a turn has raised, the
\* turn makes no call of a stage later in the pipeline, orchestrate returns
\* no value and ends with the error of a failed stage, and the memory stays
\* what it was at the turn's start.
C4_AbortOnStageFailure ==
    \A s \in Stages :
        status[s] = "failed" =>
            /\ \A i \in 1..Len(calls) : Rank(calls[i].stage) <= Rank(s)
            /\ result.kind # "value"
            /\ pc \notin {"save", "returned"}
            /\ memory = chat_history
            /\ pc = "except" => result.kind = "error"
            /\ (pc \in {"closing", "except"} /\ result.kind # "interrupt")
                  => /\ result.kind = "error"
                     /\ \E f \in Stages :
                           status[f] = "failed" /\ result.val = <<f>>

\* The error of a failed Customer-Service call has reached run()'s handler,
\* in a session that holds an earlier turn.
C4_Witness ==
    /\ pc = "except"
    /\ status["Service"] = "failed"
    /\ result.val = <<"Service">>
    /\ memory # <<>>

\* ---------------------------------------------------------------------- C5

\* C5: in a turn of the concurrent orchestrator a fan-out call is started
\* only after the Shopping call has returned a text holding the sentinel,
\* the Payment call only after both fan-out calls have returned, and the
\* memory is written only when no stage call of the turn is in flight,
\* after the Payment call has returned (fulfilment) or after the Shopping
\* call has returned a text without the sentinel (conversation).
C5_Ordering ==
    variant = "concurrent" =>
        /\ pc \in {"classify", "fanout"} => status["Shopping"] = "done"
        /\ (Started("Catalog") \/ Started("Service"))
              => status["Shopping"] = "done" /\ HasSentinel
        /\ Started("Payment") => \A s \in FanOut : status[s] = "done"
        /\ (pc = "save" \/ (pc \in {"closing", "returned"} /\ memory # chat_history))
              => /\ InFlight = {}
                 /\ status["Shopping"] = "done"
                 /\ IF HasSentinel
                    THEN /\ status["Payment"] = "done"
                         /\ \A s \in FanOut : status[s] = "done"
                    ELSE \A s \in {"Catalog", "Service", "Payment"} :
                            status[s] = "idle"

\* The save of a fulfilment turn is about to run, the Customer-Service
\* call having ended before the Catalog call.
C5_Witness ==
    /\ variant = "concurrent"
    /\ pc = "save"
    /\ completed = << "Service", "Catalog" >>
    /\ status["Payment"] = "done"

\* ---------------------------------------------------------------------- C6

\* C6: in the concurrent orchestrator the input of the Payment call is the
\* catalog result under 'Catalog Information:', the customer-service result
\* under 'Customer Service Information:' and the shopping output after
\* 'Original Request: ', in whichever order the two calls ended; and the
\* value returned and saved is the text that Payment call returned.
C6_DeterministicJoin ==
    variant = "concurrent" =>
        /\ \A p \in CallsOf("Payment") :
              calls[p].input =
                  CatalogHeader \o out["Catalog"]
                      \o ServiceHeader \o out["Service"]
                      \o RequestHeader \o out["Shopping"] \o <<"\n">>
        /\ (pc = "returned" /\ Started("Payment"))
              => /\ result.val = out["Payment"]
                 /\ memory[Len(memory)].content = out["Payment"]

\* A fulfilment turn has returned in which the Customer-Service call ended
\* first.
C6_Witness ==
    /\ variant = "concurrent"
    /\ pc = "returned"
    /\ completed = << "Service", "Catalog" >>
    /\ Started("Payment")

\* ---------------------------------------------------------------------- C7

\* The input the code gives to a call of `stage`, from this turn's outputs.
InputFromOutputs(stage) ==
    CASE stage = "Catalog" ->
            IF variant = "concurrent" THEN out["Shopping"]
            ELSE ShoppingOutputPrefix \o out["Shopping"]
      [] stage = "Service" -> out["Shopping"]
      [] stage = "Payment" ->
            IF variant = "concurrent"
            THEN CatalogHeader \o out["Catalog"]
                     \o ServiceHeader \o out["Service"]
                     \o RequestHeader \o out["Shopping"] \o <<"\n">>
            ELSE CatalogOutputPrefix \o out["Catalog"]

\* C7: in both orchestrators only the Shopping call is given the loaded
\* chat history (the memory as it was at the turn's start); the input of a
\* Catalog, Customer-Service or Payment call is built from this turn's
\* stage outputs alone; and while a turn's calls are made and answered the
\* memory is not written: it is the turn-start memory until the save.
C7_MemoryIsolation ==
    /\ \A i \in 1..Len(calls) :
          IF calls[i].stage = "Shopping"
          THEN /\ calls[i].with_history
               /\ calls[i].chat_history = chat_history
          ELSE /\ ~calls[i].with_history
               /\ calls[i].chat_history = <<>>
               /\ calls[i].input = InputFromOutputs(calls[i].stage)
    /\ (InFlight # {} \/ pc \in {"classify", "fanout", "gather", "save"})
          => memory = chat_history

\* The Payment call of a turn is in flight in a session whose memory holds
\* an earlier turn.
C7_Witness ==
    /\ pc = "payment"
    /\ memory # <<>>
    /\ Len(calls) >= 3

\* ---------------------------------------------------------------------- C8

\* C8: whenever run() is at its prompt, about to read the next line, no
\* stage call of an earlier turn is still in flight.
C8_TurnsNeverOverlap ==
    pc = "input" => (stragglers = {} /\ InFlight = {})

\* ---------------------------------------------------------------------- C9

\* C9: in both orchestrators, when orchestrate has returned, the value is
\* the Payment call's text if the shopping output held the sentinel, and is
\* the shopping output itself if it did not, in which case the Shopping call
\* is the turn's only call.
C9_FinalOutputByBranch ==
    pc = "returned" =>
        /\ result.kind = "value"
        /\ IF HasSentinel
           THEN /\ status["Payment"] = "done"
                /\ result.val = out["Payment"]
           ELSE /\ result.val = out["Shopping"]
                /\ Len(calls) = 1
                /\ calls[1].stage = "Shopping"
                /\ \A s \in Stages \ {"Shopping"} : status[s] = "idle"

\* A turn has returned whose shopping output held the sentinel in lower
\* case only.
C9_Witness ==
    /\ pc = "returned"
    /\ ~HasSentinel
    /\ out["Shopping"] = Lower(Sentinel)
    /\ result.val = Lower(Sentinel)

\* --------------------------------------------------------------------- C10

\* The messages that the turns of `log` which returned a value put in the
\* memory, in order.
RECURSIVE MessagesOf(_)
MessagesOf(log) ==
    IF log = <<>> THEN <<>>
    ELSE LET rest == MessagesOf(SubSeq(log, 1, Len(log) - 1))
             last == log[Len(log)]
         IN IF last.kind = "value"
            THEN rest \o << [type |-> "human", content |-> last.input],
                            [type |-> "ai", content |-> last.val] >>
            ELSE rest

\* C10: in both orchestrators, from the handler of an error that
\* orchestrate (or the read) raised, the next step of run() is back to its
\* prompt, the memory untouched and holding nothing of the failed turn; and the Shopping call of every turn is given as history
\* exactly the entries of the earlier turns that returned a value.
C10_LoopSurvivesBadTurn ==
    [][ /\ pc = "except"
            => /\ pc' \in {"except", "input"}
               /\ memory' = memory
               /\ memory = MessagesOf(ended)
        /\ (pc # "shopping" /\ pc' = "shopping")
            => /\ pc = "input"
               /\ Len(calls') = 1
               /\ calls'[1].stage = "Shopping"
               /\ calls'[1].with_history
               /\ calls'[1].chat_history = MessagesOf(ended)
      ]_vars

\* The Shopping call of a third turn is in flight, the first turn having
\* returned a value and the second having raised.
C10_Witness ==
    /\ pc = "shopping"
    /\ Len(ended) = 2
    /\ ended[1].kind = "value"
    /\ ended[2].kind = "error"
    /\ calls[1].chat_history # <<>>

\* --------------------------------------------------------------------- C11

\* The exit words, each letter in its two cases.
ExitWordLetters ==
    { << {"q", "Q"}, {"u", "U"}, {"i", "I"}, {"t", "T"} >>,
      << {"e", "E"}, {"x", "X"}, {"i", "I"}, {"t", "T"} >>,
      << {"q", "Q"} >> }

\* `text` is 'quit', 'exit' or 'q' in whatever letter case.
IsExitWord(text) ==
    \E w \in ExitWordLetters :
        /\ Len(text) = Len(w)
        /\ \A i \in 1..Len(w) : text[i] \in w[i]

\* This step is run() reading a line: input() returned, its text trimmed
\* is user_input'.
LineRead ==
    /\ pc = "input"
    /\ lines' = lines + 1
    /\ result'.kind = "none"

\* C11: in both orchestrators, when run() reads a line that, trimmed, is
\* 'quit', 'exit' or 'q' in whatever letter case, that step leaves the loop
\* with exit status 0 without an orchestrate call, a stage call or a memory
\* write; and once the loop is left nothing is read, called or written.
C11_ExitTokens ==
    [][ /\ (LineRead /\ IsExitWord(user_input'))
            => /\ pc' = "exit"
               /\ exit_code' = Exit(0)
               /\ turn' = turn
               /\ calls' = calls
               /\ status' = status
               /\ memory' = memory
        /\ pc = "exit"
            => /\ pc' = "exit"
               /\ exit_code' = exit_code
               /\ lines' = lines
               /\ turn' = turn
               /\ calls' = calls
               /\ memory' = memory
      ]_vars

\* The loop was left on the line ' Quit', after a turn that was saved.
C11_Witness ==
    /\ pc = "exit"
    /\ exit_code = Exit(0)
    /\ user_input = <<"Q", "u", "i", "t">>
    /\ result.kind = "none"
    /\ turn = 1
    /\ Len(memory) = 2

\* --------------------------------------------------------------------- C12

\* SIGINT has arrived in this iteration of the loop: at the prompt, or in
\* the turn that is being processed.
InterruptArrived == interrupt_count > 0 \/ result.kind = "interrupt"

\* C12: in both orchestrators, once an interrupt has arrived at the prompt
\* or during a turn, the memory holds the entries of the earlier turns that
\* returned and nothing of this one, orchestrate does not return a value or
\* an error to run(), the loop does not go on to another prompt, and when
\* the loop is left the exit status is 0.
C12_InterruptAborts ==
    InterruptArrived =>
        /\ memory = MessagesOf(ended)
        /\ result.kind # "value"
        /\ pc \notin {"returned", "except", "input"}
        /\ pc = "exit" => exit_code = Exit(0)

\* --------------------------------------------------------------------- C13

\* The sentinel test on its own, over many shopping outputs.

\* Pieces a shopping output is put together from: the sentinel, the
\* sentinel in lower case, the sentinel cut before its colon, a colon, and
\* another character.
TextPieces ==
    { Sentinel,
      Lower(Sentinel),
      SubSeq(Sentinel, 1, Len(Sentinel) - 1),
      <<":">>,
      <<"x">> }

\* Pieces in a shopping output, at most.
MaxPieces == 3

RECURSIVE TextsOf(_)
TextsOf(n) ==
    IF n = 0 THEN { <<>> }
    ELSE LET shorter == TextsOf(n - 1)
         IN shorter \cup { t \o p : t \in shorter, p \in TextPieces }

\* The state of a turn whose Shopping call has just returned `text`: the
\* first turn of a session, or the second after a turn that was saved.
ClassifyInit ==
    /\ variant \in {"concurrent", "sequential"}
    /\ pc = "classify"
    /\ user_input \in { <<"b", "u", "y">>, <<"h", "i">> }
    /\ ended \in { <<>>,
                   << [kind |-> "value", input |-> <<"h", "i">>,
                       val |-> Lower(Sentinel)] >> }
    /\ memory = IF ended = <<>> THEN <<>>
                ELSE SaveContext(<<>>, ended[1].input, ended[1].val)
    /\ chat_history = memory
    /\ turn = Len(ended) + 1
    /\ lines = turn
    /\ \E text \in TextsOf(MaxPieces) :
         out = [NoOut EXCEPT !["Shopping"] = text]
    /\ status = [Idle EXCEPT !["Shopping"] = "done"]
    /\ calls = << Call("Shopping", ShoppingInput(variant, user_input),
                       TRUE, memory) >>
    /\ completed = <<>>
    /\ final_result = NoText
    /\ result = NoResult
    /\ stragglers = {}
    /\ interrupt_count = 0
    /\ exit_code = NoExit

ClassifySpec == ClassifyInit /\ [][Classify]_vars

\* C13: in both orchestrators the step after the Shopping call goes to the
\* fulfilment calls exactly when the shopping output holds the characters
\* 'READY_TO_PURCHASE:' in this case and in a row somewhere in it, whatever
\* the memory and the user input are, and otherwise makes the shopping
\* output the final result; it raises nothing.
C13_PureSubstringTest ==
    pc # "classify" =>
        /\ IF HasSentinel
           THEN /\ pc = IF variant = "concurrent" THEN "fanout" ELSE "catalog"
                /\ final_result = NoText
           ELSE /\ pc = "save"
                /\ final_result = out["Shopping"]
        /\ result = NoResult
        /\ memory = chat_history

\* A second turn goes on as conversation on a shopping output made of the
\* sentinel in lower case followed by the sentinel without its colon.
C13_Witness ==
    /\ pc = "save"
    /\ memory # <<>>
    /\ out["Shopping"] =
           Lower(Sentinel) \o SubSeq(Sentinel, 1, Len(Sentinel) - 1)

\* --------------------------------------------------------------------- C14

\* `s` is the beginning of `t`.
IsPrefix(s, t) ==
    /\ Len(s) <= Len(t)
    /\ \A i \in 1..Len(s) : t[i] = s[i]

\* C14: in both orchestrators every step, whatever it is (a line read, a
\* stage call answered or failed, an interrupt, a turn's end), leaves the
\* memory as it was or longer by one human and one ai message at its end;
\* the history loaded when a turn starts is the whole memory, which is the
\* user input and returned value of every earlier turn that returned, in
\* order; and the first turn of a session loads the empty history.
C14_MemoryAppendOnly ==
    [][ /\ IsPrefix(memory, memory')
        /\ Len(memory') \in { Len(memory), Len(memory) + 2 }
        /\ Len(memory') = Len(memory) + 2
            => /\ memory'[Len(memory') - 1].type = "human"
               /\ memory'[Len(memory')].type = "ai"
        /\ turn' # turn
            => /\ turn' = turn + 1
               /\ memory' = memory
               /\ chat_history' = memory
               /\ chat_history' = MessagesOf(ended)
               /\ Len(chat_history') = 2 * Cardinality(
                      { i \in 1..Len(ended) : ended[i].kind = "value" })
               /\ turn' = 1 => chat_history' = <<>>
      ]_vars

\* A third turn has been saved after a first that was saved and a second
\* that raised.
C14_Witness ==
    /\ Len(memory) = 4
    /\ Len(ended) = 3
    /\ ended[1].kind = "value"
    /\ ended[2].kind = "error"
    /\ ended[3].kind = "value"
    /\ memory[1].content = ended[1].input
    /\ memory[3].content = ended[3].input

\* --------------------------------------------------------------------- C15

\* A fan-out that makes the two calls one after the other, in the order
\* `order`, each answered by answer[stage]: the input each call is given,
\* and the payload built for Payment from the two answers.  The second call
\* is given what the first was given: the shopping output.
SequentialFanOut(order, shopping_output, answer) ==
    LET first == [stage |-> order[1], input |-> shopping_output,
                  answer |-> answer[order[1]]]
        second == [stage |-> order[2], input |-> shopping_output,
                   answer |-> answer[order[2]]]
        got == [s \in FanOut |->
                   IF s = first.stage THEN first.answer ELSE second.answer]
    IN [input |-> [s \in FanOut |->
                      IF s = first.stage THEN first.input ELSE second.input],
        payload |-> CatalogHeader \o got["Catalog"]
                        \o ServiceHeader \o got["Service"]
                        \o RequestHeader \o shopping_output \o <<"\n">>]

FanOutOrders == { <<"Catalog", "Service">>, <<"Service", "Catalog">> }

\* C15: in the concurrent orchestrator the Catalog call and the
\* Customer-Service call are each given the shopping output and nothing
\* else, whether or not the other has already answered, and neither input
\* holds the other's answer; the payload of the Payment call is the one a
\* fan-out making the two calls one after the other, in either order, builds
\* from the same answers, and the value returned and the entry saved are
\* the answer to that payload.
C15_FanOutIndependent ==
    variant = "concurrent" =>
        \A order \in FanOutOrders :
            LET seq == SequentialFanOut(order, out["Shopping"], out)
            IN /\ \A i \in 1..Len(calls) :
                     calls[i].stage \in FanOut
                        => /\ calls[i].input = seq.input[calls[i].stage]
                           /\ calls[i].input = out["Shopping"]
                           /\ \A s \in FanOut :
                                 (s # calls[i].stage /\ out[s] # NoText)
                                    => ~Contains(calls[i].input, out[s])
               /\ \A i \in 1..Len(calls) :
                     calls[i].stage = "Payment"
                        => calls[i].input = seq.payload
               /\ (pc = "returned" /\ Started("Payment"))
                     => /\ result = Value(out["Payment"])
                        /\ memory = chat_history \o
                              << [type |-> "human", content |-> user_input],
                                 [type |-> "ai", content |-> out["Payment"]] >>

\* The Payment call is in flight on the answers 'c2' and 'v1', the Catalog
\* call having answered before the Customer-Service call.
C15_Witness ==
    /\ variant = "concurrent"
    /\ pc = "payment"
    /\ completed = << "Catalog", "Service" >>
    /\ out["Catalog"] = <<"c", "2">>
    /\ out["Service"] = <<"v", "1">>

\* --------------------------------------------------------------------- C16

\* A step of a turn that is under way: a stage call returns or raises, or
\* the main thread takes its next step up to the return of orchestrate().
TurnStep ==
    \/ ShoppingReturns
    \/ ShoppingFails
    \/ Classify
    \/ StartThread
    \/ \E s \in FanOut : ThreadReturns(s)
    \/ \E s \in FanOut : ThreadFails(s)
    \/ GatherReturns
    \/ GatherRaises
    \/ SeqCatalogReturns
    \/ SeqCatalogFails
    \/ PaymentReturns
    \/ PaymentFails
    \/ SaveAndReturn
    \/ RunnerClose
    \/ RunnerCloseTimeout

\* The program when every stage call under way returns or raises in the end
\* and the main thread is never held up in its own code.
LiveSpec == Init /\ [][Next]_vars /\ WF_vars(TurnStep)

\* orchestrate() has returned a value, the memory one exchange longer.
Finalized ==
    /\ pc = "returned"
    /\ result.kind = "value"
    /\ memory = chat_history \o
          << [type |-> "human", content |-> user_input],
             [type |-> "ai", content |-> result.val] >>

\* orchestrate() has raised an error, the memory as it was.
Aborted ==
    /\ pc = "except"
    /\ result.kind = "error"
    /\ memory = chat_history

\* C16: in both orchestrators, if every stage call returns or raises in the
\* end, every call of orchestrate ends: it has returned a value with the
\* memory written once, or raised an error with the memory untouched, or a
\* KeyboardInterrupt has taken the program out of its loop; and once both
\* fan-out calls have returned or raised, the wait in gather ends.
C16_TurnTerminates ==
    /\ (pc \in InTurn \/ pc = "closing")
          ~> (Finalized \/ Aborted \/ pc = "exit")
    /\ (pc = "gather" /\ \A s \in FanOut : status[s] \in {"done", "failed"})
          ~> (pc # "gather")

\* A turn has ended in run()'s handler after a fan-out in which the Catalog
\* call raised and the Customer-Service call, left running, returned later.
C16_Witness ==
    /\ variant = "concurrent"
    /\ Aborted
    /\ completed = << "Catalog", "Service" >>
    /\ status["Catalog"] = "failed"
    /\ status["Service"] = "done"

\* --------------------------------------------------------------------- C17

\* `text` ends with `tail`.
EndsWith(text, tail) ==
    /\ Len(tail) <= Len(text)
    /\ \A i \in 1..Len(tail) : text[Len(text) - Len(tail) + i] = tail[i]

\* C17: in a turn of the sequential orchestrator whose shopping output
\* holds the sentinel, once the branch is taken exactly one Catalog call
\* has been made, its input the label 'Shopping Agent output: ' and the
\* shopping output; a Payment call is made at most once and only when that
\* Catalog call has returned, its input the label 'Catalog Agent output: '
\* and the catalog output, holding neither the shopping output nor the user
\* input, and a turn that has returned has made it; the Customer-Service
\* stage is never called; and in a turn whose shopping output lacks the
\* sentinel neither a Catalog nor a Payment call is made.
C17_SequentialChain ==
    variant = "sequential" =>
        /\ \A s \in Stages : Cardinality(CallsOf(s)) <= 1
        /\ ~Started("Service")
        /\ (HasSentinel /\ pc \in {"catalog", "payment", "save", "returned",
                                   "except"})
              => /\ Cardinality(CallsOf("Catalog")) = 1
                 /\ \A c \in CallsOf("Catalog") :
                       /\ EndsWith(calls[c].input, out["Shopping"])
                       /\ Len(calls[c].input) =
                              Len(ShoppingOutputPrefix) + Len(out["Shopping"])
        /\ \A p \in CallsOf("Payment") :
              /\ status["Catalog"] = "done"
              /\ \E c \in CallsOf("Catalog") : c < p
              /\ EndsWith(calls[p].input, out["Catalog"])
              /\ Len(calls[p].input) =
                     Len(CatalogOutputPrefix) + Len(out["Catalog"])
              /\ ~Contains(calls[p].input, out["Shopping"])
              /\ ~Contains(calls[p].input, user_input)
        /\ (pc = "returned" /\ HasSentinel)
              => /\ Cardinality(CallsOf("Payment")) = 1
                 /\ status["Payment"] = "done"
        /\ (status["Shopping"] # "done" \/ ~HasSentinel)
              => ~Started("Catalog") /\ ~Started("Payment")

\* A fulfilment turn of the sequential orchestrator has returned, the
\* sentinel inside its shopping output, the catalog output 'c2'.
C17_Witness ==
    /\ variant = "sequential"
    /\ pc = "returned"
    /\ out["Shopping"] = <<"o", "k", " ">> \o Sentinel
    /\ out["Catalog"] = <<"c", "2">>
    /\ Len(calls) = 3
    /\ calls[3].stage = "Payment"

\* --------------------------------------------------------------------- C18

\* C18: in both orchestrators, a step of run() that reads a line which is
\* empty once trimmed starts no orchestrate call, makes no stage call and
\* writes nothing to the memory, and leaves run() at its prompt for the
\* next line.
C18_EmptyLineNoEffect ==
    [][ (LineRead /\ user_input' = NoText)
            => /\ pc' = "input"
               /\ turn' = turn
               /\ calls' = calls
               /\ status' = status
               /\ memory' = memory
               /\ ended' = ended
               /\ exit_code' = NoExit
      ]_vars

\* Two lines have been read, the first a turn that was saved, the second a
\* line that is empty once trimmed: run() is at its prompt, the memory that
\* of the one turn.
C18_Witness ==
    /\ pc = "input"
    /\ lines = 2
    /\ turn = 1
    /\ user_input = NoText
    /\ Len(memory) = 2
    /\ Len(ended) = 1

\* --------------------------------------------------------------------- C19

\* C19: in both orchestrators, a step that takes run() out of its loop is
\* the read of an exit word or the arrival of KeyboardInterrupt in run(),
\* and sets the exit status 0; an error raised by orchestrate, or EOFError
\* raised by input(), takes run() to its handler of Exception (the
\* concurrent orchestrator through the closing of asyncio.run), the handler
\* goes back to the prompt, and the exit status is never other than 0.
C19_LoopLeftOnlyByExitOrInterrupt ==
    [][ /\ (pc # "exit" /\ pc' = "exit")
            => /\ \/ LineRead /\ IsExitWord(user_input')
                  \/ result'.kind = "interrupt"
               /\ exit_code' = Exit(0)
        /\ exit_code' \in {NoExit, Exit(0)}
        /\ (result.kind # "error" /\ result'.kind = "error")
            => pc' = IF variant = "concurrent" /\ pc # "input"
                     THEN "closing" ELSE "except"
        /\ (pc = "closing" /\ result.kind = "error" /\ pc' # "closing")
            => \/ pc' = "except"
               \/ pc' = "exit" /\ result'.kind = "interrupt"
        /\ pc = "except"
            => /\ result.kind = "error"
               /\ pc' \in {"except", "input"}
               /\ exit_code' = NoExit
      ]_vars

\* input() has raised EOFError at the second read, after a first line whose
\* turn raised and was reported: run() is in its handler again.
C19_Witness ==
    /\ pc = "except"
    /\ result = [kind |-> "error", val |-> <<"EOFError">>]
    /\ lines = 2
    /\ Len(ended) = 1
    /\ ended[1].kind = "error"
    /\ exit_code = NoExit

====
